---- MODULE Spec2Model ----
(***************************************************************************)
(* A model of bevy_lookup_curve (src/src/lib.rs): the Knot value type and  *)
(* its tangent correction, the LookupCurve (new, modify_knot, delete_knot, *)
(* find_y_given_x) and the CubicSegment used for Bezier segments.          *)
(*                                                                         *)
(* f32 values are modelled as fixed-point integers in units of 1/Scale,    *)
(* every arithmetic operation rounding to the nearest unit.  One further   *)
(* value, NaN, stands for a NaN; as the result of an arithmetic operation  *)
(* it also stands for the other non-finite values (a division by zero, a   *)
(* magnitude beyond Limit), which the code never tells apart from a NaN:   *)
(* every comparison the Newton loop makes on them is false.                *)
(* Indices are 0-based, as in the source; At(s, i) reads a sequence.       *)
(***************************************************************************)
EXTENDS Integers, Sequences, FiniteSets

VARIABLES
  pc,     \* "start": no curve yet; "ready": a curve exists; "segment": a
          \* CubicSegment exists; "panicked": the last call panicked
  knots,  \* LookupCurve.knots
  coeff,  \* CubicSegment.coeff (<<>> while there is no segment)
  op      \* the call that has just returned: its name, its arguments and
          \* its result; [name |-> "none"] once the caller has taken it

vars == <<pc, knots, coeff, op>>

---------------------------------------------------------------------------
(* Bounds of the model.                                                    *)

\* The longest knot list handed to LookupCurve::new.
MaxKnots == 3
\* Knot x positions range over 0 .. MaxX (whole units).
MaxX == 2

---------------------------------------------------------------------------
(* f32                                                                     *)

Scale == 16
Limit == 30000
NaN == 1000000

Finite(a) == a # NaN
Norm(v) == IF v > Limit \/ v < -Limit THEN NaN ELSE v
RoundDiv(n, d) ==
  IF d > 0 THEN (2 * n + d) \div (2 * d) ELSE (-2 * n - d) \div (-2 * d)

FAdd(a, b) == IF Finite(a) /\ Finite(b) THEN Norm(a + b) ELSE NaN
FSub(a, b) == IF Finite(a) /\ Finite(b) THEN Norm(a - b) ELSE NaN
FMul(a, b) == IF Finite(a) /\ Finite(b) THEN Norm(RoundDiv(a * b, Scale)) ELSE NaN
FDiv(a, b) ==
  IF Finite(a) /\ Finite(b) /\ b # 0 THEN Norm(RoundDiv(a * Scale, b)) ELSE NaN
FAbs(a) == IF Finite(a) /\ a < 0 THEN -a ELSE a
FLt(a, b) == Finite(a) /\ Finite(b) /\ a < b
FLe(a, b) == Finite(a) /\ Finite(b) /\ a <= b
FGt(a, b) == FLt(b, a)
FGe(a, b) == FLe(b, a)
FEq(a, b) == Finite(a) /\ Finite(b) /\ a = b

\* A whole number n as an f32.
F(n) == n * Scale
\* The decimal literal n/d as an f32.
Lit(n, d) == RoundDiv(n * Scale, d)

partial_cmp(a, b) ==
  IF ~Finite(a) \/ ~Finite(b) THEN "None"
  ELSE IF a < b THEN "Less"
  ELSE IF a = b THEN "Equal"
  ELSE "Greater"

powi(t, n) == IF n = 2 THEN FMul(t, t) ELSE FMul(FMul(t, t), t)

---------------------------------------------------------------------------
(* Vec2                                                                    *)

Vec2(x, y) == [x |-> x, y |-> y]
VAdd(a, b) == Vec2(FAdd(a.x, b.x), FAdd(a.y, b.y))
VSub(a, b) == Vec2(FSub(a.x, b.x), FSub(a.y, b.y))
VMul(a, s) == Vec2(FMul(a.x, s), FMul(a.y, s))
VEq(a, b) == FEq(a.x, b.x) /\ FEq(a.y, b.y)
lerp(a, b, s) == VAdd(a, VMul(VSub(b, a), s))

---------------------------------------------------------------------------
(* Sequences, 0-based                                                      *)

At(s, i) == s[i + 1]
Remove(s, i) == SubSeq(s, 1, i) \o SubSeq(s, i + 2, Len(s))
Insert(s, i, v) == SubSeq(s, 1, i) \o <<v>> \o SubSeq(s, i + 1, Len(s))
Overwrite(s, i, v) == [s EXCEPT ![i + 1] = v]
Min(S) == CHOOSE m \in S : \A n \in S : m <= n

---------------------------------------------------------------------------
(* Knot                                                                    *)

KnotInterpolation == {"Constant", "Linear", "Bezier"}

Knot(position, interpolation, id, left_tangent, right_tangent) ==
  [position |-> position, interpolation |-> interpolation, id |-> id,
   left_tangent |-> left_tangent, right_tangent |-> right_tangent]

\* Knot::default()
DefaultKnot ==
  Knot(Vec2(0, 0), "Linear", 0, Vec2(-Lit(1, 10), 0), Vec2(Lit(1, 10), 0))

\* An Option<&Knot> is a sequence of no knot (None) or one (Some).
None == <<>>
Some(k) == <<k>>

\* left_tangent_corrected without the clamp to the previous knot.
left_tangent_unclamped(self, prev_knot) ==
  IF FGe(self.left_tangent.x, 0) THEN Vec2(0, self.left_tangent.y)
  ELSE self.left_tangent

left_tangent_corrected(self, prev_knot) ==
  IF FGe(self.left_tangent.x, 0) THEN Vec2(0, self.left_tangent.y)
  ELSE IF prev_knot # None
          /\ FLt(self.left_tangent.x,
                 FSub(prev_knot[1].position.x, self.position.x))
       THEN LET min_x == FSub(prev_knot[1].position.x, self.position.x)
            IN  Vec2(min_x,
                     FMul(self.left_tangent.y, FDiv(min_x, self.left_tangent.x)))
       ELSE self.left_tangent

right_tangent_corrected(self, next_knot) ==
  IF FLe(self.right_tangent.x, 0) THEN Vec2(0, self.right_tangent.y)
  ELSE IF next_knot # None
          /\ FGt(self.right_tangent.x,
                 FSub(next_knot[1].position.x, self.position.x))
       THEN LET max_x == FSub(next_knot[1].position.x, self.position.x)
            IN  Vec2(max_x,
                     FMul(self.right_tangent.y, FDiv(max_x, self.right_tangent.x)))
       ELSE self.right_tangent

---------------------------------------------------------------------------
(* CubicSegment                                                            *)

MAX_ITERS == 8
MAX_ERROR == Lit(1, 100000)

char_matrix ==
  << <<F(1),  F(0),  F(0),  F(0)>>,
     <<F(-3), F(3),  F(0),  F(0)>>,
     <<F(3),  F(-6), F(3),  F(0)>>,
     <<F(-1), F(3),  F(-3), F(1)>> >>

Row(p, c) ==
  VAdd(VAdd(VAdd(VMul(p[1], c[1]), VMul(p[2], c[2])), VMul(p[3], c[3])),
       VMul(p[4], c[4]))

\* CubicSegment::coefficients; a CubicSegment is its coeff array.
coefficients(p, multiplier, matrix) ==
  [k \in 1..4 |-> VMul(Row(p, matrix[k]), multiplier)]

\* from_bezier_points with -3 for the -6 of the characteristic matrix.
from_bezier_points_wrong_matrix(control_points) ==
  coefficients(control_points, F(1),
               [char_matrix EXCEPT ![3] = <<F(3), F(-3), F(3), F(0)>>])

from_bezier_points(control_points) ==
  coefficients(control_points, F(1), char_matrix)

position(c, t) ==
  VAdd(VAdd(VAdd(c[1], VMul(c[2], t)), VMul(c[3], powi(t, 2))),
       VMul(c[4], powi(t, 3)))

velocity(c, t) ==
  VAdd(VAdd(c[2], VMul(VMul(c[3], F(2)), t)),
       VMul(VMul(c[4], F(3)), powi(t, 2)))

\* The loop of CubicSegment::find_y_given_x with `iters` iterations left.
\* (The position and the next guess are drawn from one-element sets so that
\* each is computed once, before what follows reads it.)
RECURSIVE newton(_, _, _, _)
newton(c, x, t_guess, iters) ==
  CHOOSE y \in
    { LET error == FSub(pos_guess.x, x)
          slope == velocity(c, t_guess).x
      IN  IF FLe(FAbs(error), MAX_ERROR) \/ iters = 1 THEN pos_guess.y
          ELSE CHOOSE r \in {newton(c, x, t, iters - 1) :
                               t \in {FSub(t_guess, FDiv(error, slope))}} : TRUE
      : pos_guess \in {position(c, t_guess)} } : TRUE

segment_find_y_given_x(c, x) ==
  CHOOSE y \in {newton(cc, x, x, MAX_ITERS) : cc \in {c}} : TRUE

---------------------------------------------------------------------------
(* LookupCurve                                                             *)

\* One step of the insertion sort behind slice::sort_by: the element k is
\* moved left past every element it compares Less than.  The comparator is
\* the closure of LookupCurve::new, which panics on a None.
RECURSIVE insert_tail(_, _)
insert_tail(v, k) ==
  IF v = <<>> THEN [panic |-> FALSE, v |-> <<k>>]
  ELSE LET c == partial_cmp(k.position.x, v[Len(v)].position.x)
       IN  IF c = "None" THEN [panic |-> TRUE, v |-> <<>>]
           ELSE IF c = "Less"
                THEN LET r == insert_tail(SubSeq(v, 1, Len(v) - 1), k)
                     IN  IF r.panic THEN r
                         ELSE [panic |-> FALSE, v |-> Append(r.v, v[Len(v)])]
                ELSE [panic |-> FALSE, v |-> Append(v, k)]

RECURSIVE sort_by(_)
sort_by(v) ==
  IF Len(v) < 2 THEN [panic |-> FALSE, v |-> v]
  ELSE LET r == sort_by(SubSeq(v, 1, Len(v) - 1))
       IN  IF r.panic THEN r ELSE insert_tail(r.v, v[Len(v)])

\* new without its sort.
new_unsorted(input) == [panic |-> FALSE, v |-> input]

\* LookupCurve::new: [panic, v], v the knots of the curve built.
new(input) == sort_by(input)

\* slice::partition_point with the predicate knot.position.x < x.
partition_point(v, x) ==
  LET stop == {j \in 1..Len(v) : ~FLt(v[j].position.x, x)}
  IN  IF stop = {} THEN Len(v) ELSE Min(stop) - 1

\* modify_knot overwriting in place whatever the new position.
modify_knot_in_place(v, i, new_value) ==
  [v |-> Overwrite(v, i, new_value), ret |-> i]

\* modify_knot returning the partition point, not the index it inserted at.
modify_knot_stale_index(v, i, new_value) ==
  LET old_value == At(v, i)
      new_i == partition_point(v, new_value.position.x)
      insert_i == IF i < new_i THEN new_i - 1 ELSE new_i
  IN  IF VEq(old_value.position, new_value.position) \/ new_i = i
      THEN [v |-> Overwrite(v, i, new_value), ret |-> i]
      ELSE [v |-> Insert(Remove(v, i), insert_i, new_value), ret |-> new_i]

\* LookupCurve::modify_knot: [v, ret], v the knots after the call.
modify_knot(v, i, new_value) ==
  LET old_value == At(v, i)
      new_i == partition_point(v, new_value.position.x)
      insert_i == IF i < new_i THEN new_i - 1 ELSE new_i
  IN  IF VEq(old_value.position, new_value.position)
      THEN [v |-> Overwrite(v, i, new_value), ret |-> i]
      ELSE IF new_i = i
           THEN [v |-> Overwrite(v, i, new_value), ret |-> i]
           ELSE [v |-> Insert(Remove(v, i), insert_i, new_value),
                 ret |-> insert_i]

delete_knot(v, i) == Remove(v, i)

\* The test of find_y_given_x for an x at or above the knot range.
above_range_strict(v, x) == FGt(x, At(v, Len(v) - 1).position.x)
above_range(v, x) == FGe(x, At(v, Len(v) - 1).position.x)

\* The left knot's index without the step back.
left_knot_index_no_step(v, x) == partition_point(v, x)

\* The index of the left knot in find_y_given_x (-1: the subtraction
\* underflows, and the call panics).
left_knot_index(v, x) == partition_point(v, x) - 1

\* The control points of the Bezier segment between knot_a and knot_b.
bezier_points(knot_a, knot_b) ==
  << knot_a.position,
     VAdd(knot_a.position, right_tangent_corrected(knot_a, Some(knot_b))),
     VAdd(knot_b.position, left_tangent_corrected(knot_b, Some(knot_a))),
     knot_b.position >>

\* LookupCurve::find_y_given_x: [panic, ret, i, points]; i is the left
\* knot's index when the call got as far as finding it (else -1), points
\* the control points when it built a Bezier segment (else <<>>).
find_y_given_x(v, x) ==
  LET out(y, i, pts) == [panic |-> FALSE, ret |-> y, i |-> i, points |-> pts]
      n == Len(v)
      i == left_knot_index(v, x)
  IN  IF n = 0 THEN out(0, -1, <<>>)
      ELSE IF n = 1 \/ FLe(x, At(v, 0).position.x)
           THEN out(At(v, 0).position.y, -1, <<>>)
      ELSE IF above_range(v, x)
           THEN out(At(v, n - 1).position.y, -1, <<>>)
      ELSE IF i < 0 \/ i > n - 1
           THEN [panic |-> TRUE, ret |-> 0, i |-> -1, points |-> <<>>]
      ELSE LET knot_a == At(v, i)
           IN  CASE knot_a.interpolation = "Constant" ->
                      out(knot_a.position.y, i, <<>>)
                 [] knot_a.interpolation = "Linear" ->
                      IF i + 1 > n - 1
                      THEN [panic |-> TRUE, ret |-> 0, i |-> i, points |-> <<>>]
                      ELSE LET knot_b == At(v, i + 1)
                               s == FDiv(FSub(x, knot_a.position.x),
                                         FSub(knot_b.position.x, knot_a.position.x))
                           IN  out(lerp(knot_a.position, knot_b.position, s).y,
                                   i, <<>>)
                 [] knot_a.interpolation = "Bezier" ->
                      IF i + 1 > n - 1
                      THEN [panic |-> TRUE, ret |-> 0, i |-> i, points |-> <<>>]
                      ELSE LET pts == bezier_points(knot_a, At(v, i + 1))
                           IN  out(segment_find_y_given_x(from_bezier_points(pts), x),
                                   i, pts)

---------------------------------------------------------------------------
(* Inputs                                                                  *)

XVals == {F(k) : k \in 0..MaxX}
YVals == {F(0), F(1)}

\* The lists of at most MaxKnots elements of Elems.
Lists(Elems) == UNION {[1..n -> Elems] : n \in 0..MaxKnots}

\* Knots that differ in position and id (the id is the place in the input).
PlainKnot(pos, id) == [DefaultKnot EXCEPT !.position = pos, !.id = id]
PlainInputs ==
  {[k \in DOMAIN f |-> PlainKnot(f[k], k)] :
     f \in Lists({Vec2(x, y) : x \in XVals \cup {NaN}, y \in YVals})}

\* Knots that differ in x, interpolation and tangents; the y is the id.
\* These lists come in x order already (PlainInputs has the unordered ones).
\* The long tangents reach past a neighbour one unit away and not past one
\* two units away; the backward ones point the wrong way.
LongTangents == [l |-> Vec2(-F(1) - Scale \div 2, F(1)), r |-> Vec2(F(1) + Scale \div 2, F(-1))]
BackwardTangents == [l |-> Vec2(F(1), F(1)), r |-> Vec2(F(-1), F(1))]
ShapedKnot(e, id) ==
  Knot(Vec2(e.x, F(id)), e.interpolation, id, e.tangents.l, e.tangents.r)
ShapedInputs ==
  LET sorted == {f \in Lists([x : XVals, interpolation : KnotInterpolation,
                              tangents : {LongTangents, BackwardTangents}]) :
                   \A k \in 1..(Len(f) - 1) : f[k].x <= f[k + 1].x}
  IN  {[k \in DOMAIN f |-> ShapedKnot(f[k], k)] : f \in sorted}

\* Control points and parameters of a CubicSegment, in whole units.
Points == {Vec2(x, y) : x \in XVals, y \in YVals}
Params == {F(k) : k \in -1..3}

\* The values modify_knot replaces knot k by: k at another finite position.
Moved(k) == {[k EXCEPT !.position = Vec2(x, y)] : x \in XVals, y \in YVals}

\* The x values sampled: every half unit from below the range to above it,
\* and NaN.
SampleXs == {k * (Scale \div 2) : k \in -1..(2 * MaxX + 1)} \cup {NaN}

---------------------------------------------------------------------------
(* The calls                                                               *)

Init ==
  /\ pc = "start"
  /\ knots = <<>>
  /\ coeff = <<>>
  /\ op = [name |-> "none"]

New(Inputs) ==
  /\ pc = "start"
  /\ \E input \in Inputs : \E r \in {new(input)} :
           /\ pc' = IF r.panic THEN "panicked" ELSE "ready"
           /\ knots' = r.v
           /\ op' = [name |-> "new", input |-> input]
  /\ UNCHANGED coeff

\* The caller takes the result of the call that has returned.
Return ==
  /\ pc = "ready"
  /\ op.name # "none"
  /\ op' = [name |-> "none"]
  /\ UNCHANGED <<pc, knots, coeff>>

ModifyKnot ==
  /\ pc = "ready"
  /\ op.name = "none"
  /\ \E i \in 0..(Len(knots) - 1) : \E new_value \in Moved(At(knots, i)) :
       \E r \in {modify_knot(knots, i, new_value)} :
           /\ knots' = r.v
           /\ op' = [name |-> "modify_knot", old |-> knots, i |-> i,
                     new_value |-> new_value, ret |-> r.ret]
  /\ UNCHANGED <<pc, coeff>>

DeleteKnot ==
  /\ pc = "ready"
  /\ op.name = "none"
  /\ \E i \in 0..(Len(knots) - 1) :
       /\ knots' = delete_knot(knots, i)
       /\ op' = [name |-> "delete_knot", old |-> knots, i |-> i]
  /\ UNCHANGED <<pc, coeff>>

FindYGivenX ==
  /\ pc = "ready"
  /\ op.name = "none"
  /\ \E x \in SampleXs : \E r \in {find_y_given_x(knots, x)} :
           /\ pc' = IF r.panic THEN "panicked" ELSE "ready"
           /\ op' = [name |-> "find_y_given_x", x |-> x, ret |-> r.ret,
                     i |-> r.i, points |-> r.points, panic |-> r.panic]
  /\ UNCHANGED <<knots, coeff>>

FromBezierPoints ==
  /\ pc = "start"
  /\ \E control_points \in [1..4 -> Points] :
       /\ coeff' = from_bezier_points(control_points)
       /\ op' = [name |-> "from_bezier_points", points |-> control_points]
  /\ pc' = "segment"
  /\ UNCHANGED knots

Position ==
  /\ pc = "segment"
  /\ \E t \in Params :
       op' = [name |-> "position", points |-> op.points, t |-> t,
              ret |-> position(coeff, t)]
  /\ UNCHANGED <<pc, knots, coeff>>

Velocity ==
  /\ pc = "segment"
  /\ \E t \in Params :
       op' = [name |-> "velocity", points |-> op.points, t |-> t,
              ret |-> velocity(coeff, t)]
  /\ UNCHANGED <<pc, knots, coeff>>

\* The curve's life: construction, then any mutation and sampling.
Next ==
  \/ New(PlainInputs)
  \/ Return
  \/ ModifyKnot
  \/ DeleteKnot
  \/ FindYGivenX

Spec == Init /\ [][Next]_vars

\* Sampling curves of every interpolation mode and tangent shape.
NextSample ==
  \/ New(ShapedInputs)
  \/ Return
  \/ FindYGivenX

SpecSample == Init /\ [][NextSample]_vars

\* A CubicSegment built from control points, then evaluated; the record of
\* the last call keeps the control points.
NextSegment ==
  \/ FromBezierPoints
  \/ Position
  \/ Velocity

SpecSegment == Init /\ [][NextSegment]_vars

---------------------------------------------------------------------------
(* Properties                                                              *)

Xs(v) == [k \in 1..Len(v) |-> v[k].position.x]
NoNaN(v) == \A k \in 1..Len(v) : Finite(v[k].position.x)
NonDecreasing(v) ==
  \A k \in 1..(Len(v) - 1) : FLe(v[k].position.x, v[k + 1].position.x)
Ids(v) == {v[k].id : k \in 1..Len(v)}
\* The place in v of the knot with this id.
Place(v, id) == CHOOSE k \in 1..Len(v) : v[k].id = id
Reorderings(v) ==
  {[k \in 1..Len(v) |-> v[f[k]]] :
     f \in {g \in [1..Len(v) -> 1..Len(v)] : \A a, b \in 1..Len(v) : a # b => g[a] # g[b]}}
\* The knots with ids a and b come in the same order in v and in w.
SameOrder(v, w, a, b) == (Place(v, a) < Place(v, b)) <=> (Place(w, a) < Place(w, b))
\* Knots a and b have equal x in v.
Tied(v, a, b) == FEq(v[Place(v, a)].position.x, v[Place(v, b)].position.x)

\* C1: after new (on a list without NaN x), modify_knot and delete_knot
\* have returned, knots() is non-decreasing in position.x.
C1_SortedAfterEveryCall ==
  (pc = "ready" /\ NoNaN(knots)) => NonDecreasing(knots)

\* A knot was moved past its neighbours and the three knots are in order.
C1_Witness ==
  /\ op.name = "modify_knot" /\ op.ret # op.i /\ Len(knots) = 3
  /\ knots[1].position.x < knots[3].position.x
  /\ NonDecreasing(knots)

\* C2: modify_knot(i, v) returns an index r with knots()[r] = v, the
\* length unchanged, and the other knots those of the old list, in order:
\* the new list is the old one with the knot at i removed and v inserted
\* at r.
C2_ModifyReplacesAndReturnsIndex ==
  op.name = "modify_knot" =>
    /\ op.ret \in 0..(Len(knots) - 1)
    /\ At(knots, op.ret) = op.new_value
    /\ Len(knots) = Len(op.old)
    /\ Remove(knots, op.ret) = Remove(op.old, op.i)
    /\ knots = Insert(Remove(op.old, op.i), op.ret, op.new_value)

\* A knot was moved to the right past a neighbour, where the insertion
\* index is the partition point less one.
C2_Witness ==
  /\ op.name = "modify_knot" /\ op.i < op.ret /\ Len(knots) = 3
  /\ At(knots, op.ret) = op.new_value

\* C4: new panics for every knot list of at least one knot in which some
\* position.x is NaN.
C4_NaNAlwaysPanics ==
  (op.name = "new" /\ Len(op.input) >= 1 /\ ~NoNaN(op.input)) => pc = "panicked"

\* C5: construction is order-independent: every permutation of the input
\* builds the same knots, element for element.
C5_OrderIndependent ==
  (op.name = "new" /\ NoNaN(op.input)) =>
    \A P \in Reorderings(op.input) : new(P) = [panic |-> FALSE, v |-> knots]

\* C5 as amended: a permutation of the input that keeps the relative order
\* of the knots with equal x builds the same knots; any permutation builds
\* a curve with the same x values in the same places; and the curve's own
\* knots build the same curve again.
C5_OrderIndependentUpToTies ==
  (op.name = "new" /\ NoNaN(op.input)) =>
    /\ pc = "ready"
    /\ \A P \in Reorderings(op.input) :
         /\ ~new(P).panic
         /\ Xs(new(P).v) = Xs(knots)
         /\ (\A a, b \in Ids(P) : Tied(P, a, b) => SameOrder(P, op.input, a, b))
              => new(P).v = knots
    /\ new(knots) = [panic |-> FALSE, v |-> knots]

\* new was given three knots out of order, two of them with equal x.
C5_Witness ==
  /\ op.name = "new" /\ pc = "ready" /\ Len(op.input) = 3
  /\ knots # op.input
  /\ \E a, b \in Ids(knots) : a # b /\ Tied(knots, a, b)

\* C6: knots with equal x keep their relative order: new keeps the input
\* order among them, and two knots with equal x before and after a
\* modify_knot or delete_knot call are in the same order after it.
C6_TiesKeepOrder ==
  /\ (op.name = "new" /\ pc = "ready") =>
        \A a, b \in Ids(knots) : Tied(knots, a, b) => SameOrder(knots, op.input, a, b)
  /\ op.name \in {"modify_knot", "delete_knot"} =>
        \A a, b \in Ids(knots) \cap Ids(op.old) :
          (Tied(op.old, a, b) /\ Tied(knots, a, b)) => SameOrder(knots, op.old, a, b)

\* C10: for an x strictly inside the knot range of a curve of two knots or
\* more, the left knot's index i is within 0 .. len-2 and
\* knots[i].x < x <= knots[i+1].x, so that the call does not panic and
\* the divisor b.x - a.x is positive.
C10_LeftKnotBrackets ==
  ( /\ op.name = "find_y_given_x" /\ Len(knots) >= 2 /\ Finite(op.x)
    /\ FLt(At(knots, 0).position.x, op.x)
    /\ FLt(op.x, At(knots, Len(knots) - 1).position.x) ) =>
    /\ ~op.panic
    /\ op.i \in 0..(Len(knots) - 2)
    /\ FLt(At(knots, op.i).position.x, op.x)
    /\ FLe(op.x, At(knots, op.i + 1).position.x)
    /\ FSub(At(knots, op.i + 1).position.x, At(knots, op.i).position.x) > 0

\* An x inside the second segment of a curve of three knots was sampled.
C10_Witness ==
  /\ op.name = "find_y_given_x" /\ Len(knots) = 3 /\ op.i = 1 /\ ~op.panic
  /\ FLt(At(knots, 1).position.x, op.x)
  /\ FLt(op.x, At(knots, 2).position.x)

\* No two knots of v share an x.
DistinctXs(v) ==
  \A j, k \in 1..Len(v) : j # k => v[j].position.x # v[k].position.x

\* C3: find_y_given_x at a knot's x returns that knot's y, whatever the
\* interpolation modes, for first, interior and last knots alike.  (Stated
\* for the curves whose knots have pairwise different x: where two knots
\* share an x and differ in y, no result meets the claim for both.)
C3_KnotsAreHit ==
  (op.name = "find_y_given_x" /\ DistinctXs(knots)) =>
    \A k \in 1..Len(knots) :
      FEq(knots[k].position.x, op.x) =>
        (~op.panic /\ op.ret = knots[k].position.y)

\* C7: find_y_given_x returns the first knot's y for every x <= first.x
\* and the last knot's y for every x >= last.x; with a single knot, that
\* knot's y for every x.
C7_FlatOutside ==
  (op.name = "find_y_given_x" /\ Len(knots) >= 1) =>
    LET first == At(knots, 0)
        last == At(knots, Len(knots) - 1)
    IN  /\ FLe(op.x, first.position.x) => (~op.panic /\ op.ret = first.position.y)
        /\ FGe(op.x, last.position.x) => (~op.panic /\ op.ret = last.position.y)
        /\ Len(knots) = 1 => (~op.panic /\ op.ret = first.position.y)

\* C7 as amended: the first knot's y for every x <= first.x; the last
\* knot's y for every x >= last.x that is not also <= first.x; with a
\* single knot, that knot's y for every x.
C7_FlatOutsideFirstWins ==
  (op.name = "find_y_given_x" /\ Len(knots) >= 1) =>
    LET first == At(knots, 0)
        last == At(knots, Len(knots) - 1)
    IN  /\ FLe(op.x, first.position.x) => (~op.panic /\ op.ret = first.position.y)
        /\ (FGe(op.x, last.position.x) /\ ~FLe(op.x, first.position.x)) =>
              (~op.panic /\ op.ret = last.position.y)
        /\ Len(knots) = 1 => (~op.panic /\ op.ret = first.position.y)

\* An x at the last knot of three, after a Constant segment, returned the
\* last knot's y.
C7_Witness ==
  /\ op.name = "find_y_given_x" /\ Len(knots) = 3
  /\ knots[2].interpolation = "Constant"
  /\ knots[2].position.x < knots[3].position.x
  /\ op.x = knots[3].position.x
  /\ op.ret = knots[3].position.y

\* C8: the corrected left tangent has x exactly 0 when left_tangent.x >= 0
\* and exactly prev.x - this.x when left_tangent.x < prev.x - this.x, the
\* corrected right tangent mirrors it, and both inner control points of
\* every Bezier segment find_y_given_x builds lie within [a.x, b.x].
C8_TangentsClamped ==
  (op.name = "find_y_given_x" /\ op.points # <<>>) =>
    LET a == At(knots, op.i)
        b == At(knots, op.i + 1)
        lt == left_tangent_corrected(b, Some(a))
        rt == right_tangent_corrected(a, Some(b))
    IN  /\ b.left_tangent.x >= 0 => lt.x = 0
        /\ b.left_tangent.x < a.position.x - b.position.x =>
              lt.x = a.position.x - b.position.x
        /\ a.right_tangent.x <= 0 => rt.x = 0
        /\ a.right_tangent.x > b.position.x - a.position.x =>
              rt.x = b.position.x - a.position.x
        /\ op.points = <<a.position, VAdd(a.position, rt), VAdd(b.position, lt),
                         b.position>>
        /\ \A k \in {2, 3} :
              /\ a.position.x <= op.points[k].x
              /\ op.points[k].x <= b.position.x

\* A Bezier segment was built whose right knot's left tangent reached past
\* the left knot and was cut back to it.
C8_Witness ==
  /\ op.name = "find_y_given_x" /\ op.points # <<>>
  /\ At(knots, op.i + 1).left_tangent.x
       < At(knots, op.i).position.x - At(knots, op.i + 1).position.x
  /\ op.points[3].x = op.points[1].x
  /\ op.points[1].x < op.points[4].x

\* The cubic Bezier polynomial of points p at the whole parameter T, and
\* its derivative, one coordinate at a time.
Bernstein(p0, p1, p2, p3, T) ==
  (1 - T) * (1 - T) * (1 - T) * p0 + 3 * (1 - T) * (1 - T) * T * p1
    + 3 * (1 - T) * T * T * p2 + T * T * T * p3
BernsteinSlope(p0, p1, p2, p3, T) ==
  3 * (1 - T) * (1 - T) * (p1 - p0) + 6 * (1 - T) * T * (p2 - p1)
    + 3 * T * T * (p3 - p2)

\* C9: the segment built by from_bezier_points has position(t) =
\* (1-t)^3 p0 + 3(1-t)^2 t p1 + 3(1-t) t^2 p2 + t^3 p3, so position(0) = p0
\* and position(1) = p3, and velocity(t) is that polynomial's derivative.
C9_BezierBasis ==
  LET p == op.points
      T == op.t \div Scale
  IN  /\ op.name = "position" =>
            /\ op.ret.x = Bernstein(p[1].x, p[2].x, p[3].x, p[4].x, T)
            /\ op.ret.y = Bernstein(p[1].y, p[2].y, p[3].y, p[4].y, T)
            /\ T = 0 => op.ret = p[1]
            /\ T = 1 => op.ret = p[4]
      /\ op.name = "velocity" =>
            /\ op.ret.x = BernsteinSlope(p[1].x, p[2].x, p[3].x, p[4].x, T)
            /\ op.ret.y = BernsteinSlope(p[1].y, p[2].y, p[3].y, p[4].y, T)

\* A segment of four different control points was evaluated at t = 2.
C9_Witness ==
  /\ op.name = "position" /\ op.t = F(2)
  /\ Cardinality({op.points[k] : k \in 1..4}) = 4
  /\ op.ret = position(coeff, F(2))
  /\ op.ret.x = Bernstein(op.points[1].x, op.points[2].x, op.points[3].x,
                          op.points[4].x, 2)

====
